---- MODULE Spec2Model ----
(***************************************************************************)
(* SEC Event Price Impact Analyzer (src/app.py): one analysis run.         *)
(*                                                                         *)
(* Dates are day numbers; day 0 is a Monday, so d % 7 \in {5, 6} is a      *)
(* weekend.  A 'Return %' value is kept in hundredths of a percent (the    *)
(* two decimals round(., 2) keeps), a mean as the exact fraction sum / n.  *)
(***************************************************************************)
EXTENDS Integers, Sequences, FiniteSets

\* ------------------------------------------------------------- bounds
\* The filing source returns at most MaxFilings filings.
MaxFilings == 2

\* ------------------------------------------------------ input domains
StartDates == {8}
EndDates == {14, 21}
Todays == {5, 11, 60}
CurrentEventDays == {1, 45}
FilingDates == {3, 8, 12, 21}
PriceFeeds == {1, 2}
ItemDescription == "Item 5.02 Departure of Director"
PlainDescription == "Regulation FD Disclosure"
\* company.get_filings(form=["4", "8-K"]) returns these forms and amendments.
FilingKinds ==
    { [form |-> "4", description |-> ""],
      [form |-> "8-K", description |-> ItemDescription],
      [form |-> "8-K", description |-> PlainDescription],
      [form |-> "8-K/A", description |-> PlainDescription] }
RawFiling ==
    { [filing_date |-> d, form |-> k.form, description |-> k.description] :
        d \in FilingDates, k \in FilingKinds }
RawFilingLists == UNION { [1..n -> RawFiling] : n \in 0..MaxFilings }

\* --------------------------------------------------- program constants
HistPadDays == 30
\* The horizons of a sibling variant of the script.
days_to_track_variant == <<1, 5, 10, 30>>

days_to_track == <<1, 3, 10, 30>>
recent_days == <<0, 3, 10, 30>>

SEC_FORM_DESCRIPTIONS ==
    [c \in {"3", "4", "5", "8-K", "10-K", "10-Q", "10-K/A", "10-Q/A", "13D",
            "13G", "13D/A", "13G/A", "14A", "14D-1", "14D-9", "14E", "20-F",
            "20-F/A", "6-K", "S-1", "S-3", "S-4", "F-1", "F-3", "F-4",
            "424B5", "DEF14A", "DEFM14A"} |->
        CASE c = "3" -> "Initial Insider Filing"
          [] c = "4" -> "Insider Trading"
          [] c = "5" -> "Annual Insider Report"
          [] c = "8-K" -> "Current Events"
          [] c = "10-K" -> "Annual Report"
          [] c = "10-Q" -> "Quarterly Report"
          [] c = "10-K/A" -> "Annual Amendment"
          [] c = "10-Q/A" -> "Quarterly Amendment"
          [] c = "13D" -> "Major Shareholder Filing"
          [] c = "13G" -> "Large Holding Notice"
          [] c = "13D/A" -> "Major Shareholder Amendment"
          [] c = "13G/A" -> "Large Holding Amendment"
          [] c = "14A" -> "Proxy Statement"
          [] c = "14D-1" -> "Tender Offer"
          [] c = "14D-9" -> "Tender Response"
          [] c = "14E" -> "Tender Offer Rules"
          [] c = "20-F" -> "Foreign Annual Report"
          [] c = "20-F/A" -> "Foreign Amendment"
          [] c = "6-K" -> "Foreign Periodic Report"
          [] c = "S-1" -> "IPO Registration"
          [] c = "S-3" -> "Short Form Registration"
          [] c = "S-4" -> "Merger Registration"
          [] c = "F-1" -> "Foreign IPO"
          [] c = "F-3" -> "Foreign Short Form"
          [] c = "F-4" -> "Foreign Merger"
          [] c = "424B5" -> "Final Prospectus"
          [] c = "DEF14A" -> "Definitive Proxy"
          [] c = "DEFM14A" -> "Merger Proxy" ]

\* A form code written verbatim where the table should have been read.
get_form_description_raw(form_code) == form_code

\* SEC_FORM_DESCRIPTIONS.get(form_code, form_code)
get_form_description(form_code) ==
    IF form_code \in DOMAIN SEC_FORM_DESCRIPTIONS
    THEN SEC_FORM_DESCRIPTIONS[form_code]
    ELSE form_code

\* ------------------------------------------------------- price history
IsWeekend(d) == d % 7 \in {5, 6}

\* The close the price source quotes for day d.
Close(feed, d) == IF feed = 1 THEN 20 + d ELSE 30 + ((d * 7) % 11)

RECURSIVE DaysFrom(_, _, _)
DaysFrom(feed, lo, hi) ==
    IF lo > hi THEN <<>>
    ELSE IF IsWeekend(lo) THEN DaysFrom(feed, lo + 1, hi)
    ELSE <<[date |-> lo, Close |-> Close(feed, lo)]>> \o DaysFrom(feed, lo + 1, hi)

Min(a, b) == IF a < b THEN a ELSE b

\* stock.history(start=start, end=end): the trading days in [start, end) the
\* source has quoted so far, ascending by date.
History(feed, start, end, now) == DaysFrom(feed, start, Min(end - 1, now))

\* --------------------------------------------------------- reactions
\* filings[(filings['filing_date'] >= start_date) & (... <= end_date)] with
\* the lower bound left out.
DateFilterNoStart(raw, start, end) ==
    SelectSeq(raw, LAMBDA f : f.filing_date <= end)

\* filings[(filings['filing_date'] >= start_date) & (filings['filing_date'] <= end_date)]
DateFilter(raw, start, end) ==
    SelectSeq(raw, LAMBDA f : f.filing_date >= start /\ f.filing_date <= end)

\* hist.index[hist.index.date > f_date]: the filing day itself left out.
TradingDaysAfter(h, f_date) ==
    LET later == SelectSeq(h, LAMBDA r : r.date > f_date)
    IN  [i \in DOMAIN later |-> later[i].date]

\* hist.index[hist.index.date >= f_date]: the index labels, in hist's order.
TradingDays(h, f_date) ==
    LET later == SelectSeq(h, LAMBDA r : r.date >= f_date)
    IN  [i \in DOMAIN later |-> later[i].date]

\* hist.loc[label, 'Close']
Loc(h, label) == h[CHOOSE i \in DOMAIN h : h[i].date = label].Close

\* len(trading_days) > days + 1: the last reachable day refused.
HasDayStrict(trading_days, days) == Len(trading_days) > days + 1

\* len(trading_days) > days
HasDay(trading_days, days) == Len(trading_days) > days

\* trading_days[days - 1]: the label one position short of the horizon.
FutureDayShort(trading_days, days) == trading_days[days]

\* trading_days[days] (Python counts from 0)
FutureDay(trading_days, days) == trading_days[days + 1]

\* round(x, 2) for x = num / den percent, den > 0, as hundredths of a percent:
\* the nearest hundredth, a tie going to the even one.
Round2(num, den) ==
    LET scaled == 100 * num
        q == scaled \div den
        r == scaled % den
    IN  IF 2 * r < den THEN q
        ELSE IF 2 * r > den THEN q + 1
        ELSE IF q % 2 = 0 THEN q ELSE q + 1

\* round(((future_price - filing_price) / filing_price) * 100, 2)
PctChange(future_price, filing_price) ==
    Round2((future_price - filing_price) * 100, filing_price)

\* One row of results.  Date, Form, Days, Return are its columns; src, entry
\* and used record which filing was read and which index labels of hist
\* gave filing_price and future_price.
Row(fs, i, days, ret, entry, used) ==
    [Date |-> fs[i].filing_date, Form |-> fs[i].form, Days |-> days,
     Return |-> ret, src |-> i, entry |-> entry, used |-> used]

RECURSIVE HorizonRows(_, _, _, _, _)
\* for days in days_to_track[k..]: the rows appended for filing i
HorizonRows(h, fs, i, trading_days, k) ==
    IF k > Len(days_to_track) THEN <<>>
    ELSE LET days == days_to_track[k]
             filing_price == Loc(h, trading_days[1])
             rest == HorizonRows(h, fs, i, trading_days, k + 1)
         IN  IF HasDay(trading_days, days)
             THEN LET used == FutureDay(trading_days, days)
                  IN  <<Row(fs, i, days, PctChange(Loc(h, used), filing_price),
                            trading_days[1], used)>> \o rest
             ELSE rest

\* The body of the historical loop for filing i.
FilingRows(h, fs, i) ==
    LET trading_days == TradingDays(h, fs[i].filing_date)
    IN  IF Len(trading_days) > 0
        THEN HorizonRows(h, fs, i, trading_days, 1)
        ELSE <<>>

RECURSIVE RowsFrom(_, _, _)
RowsFrom(h, fs, i) ==
    IF i > Len(fs) THEN <<>> ELSE FilingRows(h, fs, i) \o RowsFrom(h, fs, i + 1)

RECURSIVE RowsFromSkippingInsider(_, _, _)
RowsFromSkippingInsider(h, fs, i) ==
    IF i > Len(fs) THEN <<>>
    ELSE (IF fs[i].form \in {"4", "5"} THEN <<>> ELSE FilingRows(h, fs, i))
         \o RowsFromSkippingInsider(h, fs, i + 1)

\* The loop with the insider forms 4 and 5 skipped.
HistoricalRowsExcluding(h, fs) == RowsFromSkippingInsider(h, fs, 1)

\* for _, filing in filings.iterrows(): every filing, in order
HistoricalRows(h, fs) == RowsFrom(h, fs, 1)

RECURSIVE RecentHorizonRows(_, _, _, _, _)
\* for days in [0, 3, 10, 30][k..]: the rows appended for recent filing i
RecentHorizonRows(h, fs, i, trading_days, k) ==
    IF k > Len(recent_days) THEN <<>>
    ELSE LET days == recent_days[k]
             filing_price == Loc(h, trading_days[1])
             rest == RecentHorizonRows(h, fs, i, trading_days, k + 1)
         IN  IF days = 0
             THEN <<Row(fs, i, days, Round2(0, 1), trading_days[1],
                        trading_days[1])>> \o rest
             ELSE IF HasDay(trading_days, days)
             THEN LET used == FutureDay(trading_days, days)
                  IN  <<Row(fs, i, days, PctChange(Loc(h, used), filing_price),
                            trading_days[1], used)>> \o rest
             ELSE rest

RecentFilingRows(h, fs, i) ==
    LET trading_days == TradingDays(h, fs[i].filing_date)
    IN  IF Len(trading_days) > 0
        THEN RecentHorizonRows(h, fs, i, trading_days, 1)
        ELSE <<>>

RECURSIVE RecentRowsFrom(_, _, _)
RecentRowsFrom(h, fs, i) ==
    IF i > Len(fs) THEN <<>>
    ELSE RecentFilingRows(h, fs, i) \o RecentRowsFrom(h, fs, i + 1)

\* for _, filing in recent_filings.iterrows()
RecentRows(h, fs) == RecentRowsFrom(h, fs, 1)

\* ------------------------------------------------------- aggregation
\* NaN is the fraction 0 / 0; the literal 0 is 0 / 1.
NaN == [sum |-> 0, n |-> 0]
Zero == [sum |-> 0, n |-> 1]

RECURSIVE SeqSum(_)
SeqSum(s) == IF s = <<>> THEN 0 ELSE Head(s) + SeqSum(Tail(s))

\* Series.mean(): NaN for an empty series, else sum / count.
SeriesMean(s) == IF s = <<>> THEN NaN ELSE [sum |-> SeqSum(s), n |-> Len(s)]

Returns(df) == [k \in DOMAIN df |-> df[k].Return]

\* The mean of a (Form_Desc, Days) group taken over the whole Form_Desc group.
GroupMeanOverCategory(df, c, d) ==
    LET cell == SelectSeq(df, LAMBDA r : r.Form_Desc = c /\ r.Days = d)
        whole == SelectSeq(df, LAMBDA r : r.Form_Desc = c)
    IN  IF cell = <<>> THEN NaN
        ELSE [sum |-> SeqSum(Returns(cell)), n |-> Len(whole)]

\* groupby(['Form_Desc', 'Days'])['Return %'].mean() for one group
GroupMean(df, c, d) ==
    SeriesMean(Returns(SelectSeq(df, LAMBDA r : r.Form_Desc = c /\ r.Days = d)))

\* df['Form_Desc'] = df['Form'].apply(get_form_description)
WithFormDesc(rows) ==
    [k \in DOMAIN rows |->
        [Date |-> rows[k].Date, Form |-> rows[k].Form, Days |-> rows[k].Days,
         Return |-> rows[k].Return, src |-> rows[k].src,
         entry |-> rows[k].entry, used |-> rows[k].used,
         Form_Desc |-> get_form_description(rows[k].Form)]]

\* df.groupby(['Form_Desc', 'Days'])['Return %'].mean().unstack(): one line
\* per Form_Desc present, one column per Days present, NaN where the pair
\* has no row.
Pivot(df) ==
    [c \in {df[k].Form_Desc : k \in DOMAIN df} |->
        [d \in {df[k].Days : k \in DOMAIN df} |-> GroupMean(df, c, d)]]

\* mean > bound percent; any comparison with NaN is false.
MeanAbove(m, bound) == m # NaN /\ m.sum > bound * 100 * m.n
MeanBelow(m, bound) == m # NaN /\ m.sum < bound * 100 * m.n

\* ------------------------------------------------------------- state
VARIABLES
    pc,                  \* the position of the run in the script
    start_date, end_date, current_event_days,   \* the sidebar inputs
    today,               \* datetime.now().date()
    price_feed,          \* what the price source quotes
    raw_filings,         \* what the filing source returns
    hist,                \* the loaded price history
    filings,             \* the filings kept by the date filter
    results,             \* the rows of the historical loop
    results_df,          \* results with the Form_Desc column
    pivot_data,          \* the historical means per Form_Desc and Days
    recent_results,      \* the rows of the recent loop
    recent_pivot,        \* the recent means per Form_Desc and Days
    summary,             \* the averages and sentiment of the text summary
    status_label,        \* the label of the st.status box
    messages             \* the st.error and st.info messages shown

vars ==
    <<pc, start_date, end_date, current_event_days, today, price_feed,
      raw_filings, hist, filings, results, results_df, pivot_data,
      recent_results, recent_pivot, summary, status_label, messages>>

inputs == <<start_date, end_date, current_event_days, today, price_feed, raw_filings>>

None == "None"
StatusAnalyzing == "Analyzing SEC events and price impact..."
StatusComplete == "Analysis Complete!"
MsgCouldNotFind == "error: Could not find company for ticker"
MsgNoData == "error: No data found for this date range"
MsgNoMatch == "error: No matching trading data for SEC filings"
MsgException == "error: Error: <exception>"
MsgNoRecentFilings == "info: No SEC filings in the last N days"
MsgNoRecentPrices == "info: No price data available yet for recent filings"

\* The run button has been pressed with a ticker entered.
Init ==
    /\ pc = "fetch_stock"
    /\ start_date \in StartDates
    /\ end_date \in EndDates
    /\ current_event_days \in CurrentEventDays
    /\ today \in Todays
    /\ price_feed \in PriceFeeds
    /\ raw_filings \in RawFilingLists
    /\ hist = <<>>
    /\ filings = <<>>
    /\ results = <<>>
    /\ results_df = <<>>
    /\ pivot_data = <<>>
    /\ recent_results = <<>>
    /\ recent_pivot = <<>>
    /\ summary = None
    /\ status_label = StatusAnalyzing
    /\ messages = {}

\* hist = stock.history(start=start_date, end=end_date + timedelta(days=30))
FetchStock ==
    /\ pc = "fetch_stock"
    /\ hist' = History(price_feed, start_date, end_date + HistPadDays, today)
    /\ pc' = "lookup"
    /\ UNCHANGED <<inputs, filings, results, results_df, pivot_data,
                   recent_results, recent_pivot, summary, status_label, messages>>

\* requests.get(...) / raise_for_status() / response.json() raises
LookupRaises ==
    /\ pc = "lookup"
    /\ pc' = "except"
    /\ UNCHANGED <<inputs, hist, filings, results, results_df, pivot_data,
                   recent_results, recent_pivot, summary, status_label, messages>>

\* no entry of company_tickers.json has the ticker: st.error, st.stop()
CompanyNotFound ==
    /\ pc = "lookup"
    /\ messages' = messages \cup {MsgCouldNotFind}
    /\ pc' = "done"
    /\ UNCHANGED <<inputs, hist, filings, results, results_df, pivot_data,
                   recent_results, recent_pivot, summary, status_label>>

\* the company is found; its filings are fetched and filtered by date
FetchFilings ==
    /\ pc = "lookup"
    /\ filings' = DateFilter(raw_filings, start_date, end_date)
    /\ pc' = "check"
    /\ UNCHANGED <<inputs, hist, results, results_df, pivot_data,
                   recent_results, recent_pivot, summary, status_label, messages>>

\* if hist.empty or filings.empty: st.error("No data found ...")
NoData ==
    /\ pc = "check"
    /\ hist = <<>> \/ filings = <<>>
    /\ messages' = messages \cup {MsgNoData}
    /\ pc' = "done"
    /\ UNCHANGED <<inputs, hist, filings, results, results_df, pivot_data,
                   recent_results, recent_pivot, summary, status_label>>

\* else: the historical loop over filings
HistoricalLoop ==
    /\ pc = "check"
    /\ ~(hist = <<>> \/ filings = <<>>)
    /\ results' = HistoricalRows(hist, filings)
    /\ pc' = "results"
    /\ UNCHANGED <<inputs, hist, filings, results_df, pivot_data,
                   recent_results, recent_pivot, summary, status_label, messages>>

\* The status set to complete whether or not there are results.
AnalysisCompleteAlways ==
    /\ pc = "results"
    /\ status_label' = StatusComplete
    /\ results_df' = WithFormDesc(results)
    /\ pivot_data' = Pivot(WithFormDesc(results))
    /\ messages' = IF results # <<>> THEN messages ELSE messages \cup {MsgNoMatch}
    /\ pc' = IF results # <<>> THEN "recent" ELSE "done"
    /\ UNCHANGED <<inputs, hist, filings, results, recent_results,
                   recent_pivot, summary>>

\* if results: status complete, Form_Desc column, pivot_data
AnalysisComplete ==
    /\ pc = "results"
    /\ results # <<>>
    /\ status_label' = StatusComplete
    /\ results_df' = WithFormDesc(results)
    /\ pivot_data' = Pivot(WithFormDesc(results))
    /\ pc' = "recent"
    /\ UNCHANGED <<inputs, hist, filings, results, recent_results,
                   recent_pivot, summary, messages>>

\* else: st.error("No matching trading data for SEC filings")
NoMatch ==
    /\ pc = "results"
    /\ results = <<>>
    /\ messages' = messages \cup {MsgNoMatch}
    /\ pc' = "done"
    /\ UNCHANGED <<inputs, hist, filings, results, results_df, pivot_data,
                   recent_results, recent_pivot, summary, status_label>>

\* recent_filings = filings[filings['filing_date'] >= recent_cutoff]
RecentFilings ==
    LET recent_cutoff == today - current_event_days
    IN  SelectSeq(filings, LAMBDA f : f.filing_date >= recent_cutoff)

\* the recent-events section
RecentEvents ==
    /\ pc = "recent"
    /\ LET recent_filings == RecentFilings
           rows == RecentRows(hist, recent_filings)
       IN  IF recent_filings # <<>>
           THEN /\ recent_results' = WithFormDesc(rows)
                /\ IF rows # <<>>
                   THEN /\ recent_pivot' = Pivot(WithFormDesc(rows))
                        /\ messages' = messages
                   ELSE /\ recent_pivot' = recent_pivot
                        /\ messages' = messages \cup {MsgNoRecentPrices}
           ELSE /\ recent_results' = recent_results
                /\ recent_pivot' = recent_pivot
                /\ messages' = messages \cup {MsgNoRecentFilings}
    /\ pc' = "summary"
    /\ UNCHANGED <<inputs, hist, filings, results, results_df, pivot_data,
                   summary, status_label>>

\* results_df[results_df['Days'] == d]['Return %'].mean()
AvgAtDays(df, d) == SeriesMean(Returns(SelectSeq(df, LAMBDA r : r.Days = d)))

\* form_data[form_data['Days'] == 30]['Return %'].mean() if not form_data.empty else 0
FormAvg30(df, form) ==
    LET form_data == SelectSeq(df, LAMBDA r : r.Form = form)
    IN  IF form_data # <<>> THEN AvgAtDays(form_data, 30) ELSE Zero

\* the summary statistics and the sentiment
Summarize ==
    /\ pc = "summary"
    /\ summary' =
         LET avg_30day == AvgAtDays(results_df, 30)
         IN  [avg_1day |-> AvgAtDays(results_df, 1),
              avg_3day |-> AvgAtDays(results_df, 3),
              avg_10day |-> AvgAtDays(results_df, 10),
              avg_30day |-> avg_30day,
              form_4_avg_30 |-> FormAvg30(results_df, "4"),
              form_8k_avg_30 |-> FormAvg30(results_df, "8-K"),
              n_filings |-> Len(filings),
              sentiment |-> IF MeanAbove(avg_30day, 2) THEN "POSITIVE"
                            ELSE IF MeanBelow(avg_30day, 0 - 2) THEN "NEGATIVE"
                            ELSE "NEUTRAL"]
    /\ pc' = "done"
    /\ UNCHANGED <<inputs, hist, filings, results, results_df, pivot_data,
                   recent_results, recent_pivot, status_label, messages>>

\* except Exception as e: st.error(f"Error: {str(e)}")
HandleException ==
    /\ pc = "except"
    /\ messages' = messages \cup {MsgException}
    /\ pc' = "done"
    /\ UNCHANGED <<inputs, hist, filings, results, results_df, pivot_data,
                   recent_results, recent_pivot, summary, status_label>>

Next ==
    \/ FetchStock
    \/ LookupRaises
    \/ CompanyNotFound
    \/ FetchFilings
    \/ NoData
    \/ HistoricalLoop
    \/ AnalysisComplete
    \/ NoMatch
    \/ RecentEvents
    \/ Summarize
    \/ HandleException

Spec == Init /\ [][Next]_vars

\* ------------------------------------------------------------ claims
HistDates == {hist[i].date : i \in DOMAIN hist}
DaysOnOrAfter(d) == {e \in HistDates : e >= d}
HasEntry(d) == DaysOnOrAfter(d) # {}
EntryOf(d) == CHOOSE e \in DaysOnOrAfter(d) : \A x \in DaysOnOrAfter(d) : x >= e
InRange(d) == start_date <= d /\ d <= end_date
Completed == status_label = StatusComplete
FilterRan ==
    \/ pc \in {"check", "results", "recent", "summary"}
    \/ pc = "done" /\ messages \cap {MsgCouldNotFind, MsgException} = {}
LoopRan ==
    \/ pc \in {"results", "recent", "summary"}
    \/ pc = "done" /\ (Completed \/ MsgNoMatch \in messages)
RecentRan == pc = "summary" \/ (pc = "done" /\ Completed)
RowsOf(rows, i) == {k \in DOMAIN rows : rows[k].src = i}
HasRow(rows, i, h) == \E k \in RowsOf(rows, i) : rows[k].Days = h
AllRows == {results[k] : k \in DOMAIN results}
AllRecentRows ==
    { [f \in {"Date", "Form", "Days", "Return", "src", "entry", "used"} |->
         recent_results[k][f]] : k \in DOMAIN recent_results }
RECURSIVE SumOver(_, _)
SumOver(df, S) ==
    IF S = {} THEN 0
    ELSE LET k == CHOOSE x \in S : TRUE
         IN  df[k].Return + SumOver(df, S \ {k})

\* C1: the entry day of every row of the historical loop is the earliest
\* loaded trading day on or after the filing date and its close is the
\* baseline of the row's return; a filing with no loaded trading day on or
\* after its date contributes no row, and no error is reported for it.
C1_EntryIsEarliestTradingDay ==
    /\ \A r \in AllRows :
         /\ r.entry \in HistDates
         /\ r.entry >= r.Date
         /\ \A d \in HistDates : d >= r.Date => d >= r.entry
         /\ r.Return = PctChange(Close(price_feed, r.used), Close(price_feed, r.entry))
    /\ LoopRan =>
         /\ \A i \in DOMAIN filings :
              ~HasEntry(filings[i].filing_date) => RowsOf(results, i) = {}
         /\ MsgException \notin messages

\* A filing past the last loaded trading day was dropped while another
\* filing gave rows.
C1_Witness ==
    /\ LoopRan
    /\ results # <<>>
    /\ \E i \in DOMAIN filings : ~HasEntry(filings[i].filing_date)

\* C2 as stated: the day used for a recorded return is the earliest loaded
\* trading day on or after entry date + h calendar days.
C2_UsedIsEarliestOnOrAfterCalendarTarget ==
    \A r \in AllRows \cup AllRecentRows :
        /\ r.used >= r.entry + r.Days
        /\ \A d \in HistDates : d >= r.entry + r.Days => d >= r.used

\* C2 amended: the day used for a recorded return at horizon h is the h-th
\* loaded trading day after the entry day (exactly h loaded trading days lie
\* from the entry day up to but excluding it), so its date is at least
\* entry date + h calendar days.
C2_UsedIsHthTradingDayAfterEntry ==
    \A r \in AllRows \cup AllRecentRows :
        /\ r.used \in HistDates
        /\ Cardinality({d \in HistDates : r.entry <= d /\ d < r.used}) = r.Days
        /\ r.used >= r.entry + r.Days

\* A return taken from a later day although an earlier loaded trading day is
\* already on or after entry date + h.
C2_Witness ==
    \E r \in AllRows :
        \E d \in HistDates : d >= r.entry + r.Days /\ d < r.used

\* C3 as stated: with an entry day, the return for h is absent exactly when
\* no loaded trading day is on or after entry date + h calendar days.
C3_AbsentIffNoDayAtCalendarTarget ==
    LoopRan =>
        \A i \in DOMAIN filings : \A h \in {1, 3, 10, 30} :
            HasEntry(filings[i].filing_date) =>
                (HasRow(results, i, h) <=>
                    HasEntry(EntryOf(filings[i].filing_date) + h))

\* C3 amended: with an entry day, the return for h is absent exactly when
\* fewer than h loaded trading days lie after the entry day; it is absent
\* whenever no loaded trading day is on or after entry date + h.
C3_AbsentIffFewerThanHDaysAfterEntry ==
    LoopRan =>
        \A i \in DOMAIN filings : \A h \in {1, 3, 10, 30} :
            HasEntry(filings[i].filing_date) =>
                LET entry == EntryOf(filings[i].filing_date)
                IN  /\ HasRow(results, i, h) <=>
                          Cardinality({d \in HistDates : d > entry}) >= h
                    /\ ~HasEntry(entry + h) => ~HasRow(results, i, h)

\* A horizon left without a return although a loaded trading day lies on or
\* after entry date + h, next to a horizon that has one.
C3_Witness ==
    /\ LoopRan
    /\ \E i \in DOMAIN filings : \E h \in {1, 3, 10, 30} :
         /\ HasEntry(filings[i].filing_date)
         /\ HasEntry(EntryOf(filings[i].filing_date) + h)
         /\ ~HasRow(results, i, h)
         /\ HasRow(results, i, 1)

ExclusionSet == {"Insider Trading", "Annual Insider Report"}

\* C4 as stated: no row and no aggregate belongs to a filing whose category
\* is in the exclusion set (the insider-trading categories).
C4_ExcludedCategoriesNeverReact ==
    /\ \A r \in AllRows : get_form_description(r.Form) \notin ExclusionSet
    /\ DOMAIN pivot_data \cap ExclusionSet = {}

\* C4 amended: no exclusion is applied; every filing kept by the date filter,
\* whatever its category, with at least two loaded trading days on or after
\* its date gives a row, and every row's category has its mean in the
\* aggregate at the row's horizon.
C4_NoCategoryIsExcluded ==
    /\ LoopRan =>
         \A i \in DOMAIN filings :
             Cardinality(DaysOnOrAfter(filings[i].filing_date)) > 1 =>
                 RowsOf(results, i) # {}
    /\ Completed =>
         \A r \in AllRows :
             /\ get_form_description(r.Form) \in DOMAIN pivot_data
             /\ pivot_data[get_form_description(r.Form)][r.Days] # NaN

\* A Form 4 filing has a row and the aggregate has an Insider Trading mean.
C4_Witness ==
    /\ Completed
    /\ \E r \in AllRows :
         /\ r.Form = "4"
         /\ "Insider Trading" \in DOMAIN pivot_data
         /\ pivot_data["Insider Trading"][r.Days] # NaN

MeanIsOver(cell, df, idx) ==
    IF idx = {} THEN cell = NaN
    ELSE /\ cell.n > 0
         /\ cell.sum * Cardinality(idx) = SumOver(df, idx) * cell.n

PivotIsMeanOf(pivot, df) ==
    /\ DOMAIN pivot = {df[k].Form_Desc : k \in DOMAIN df}
    /\ \A c \in DOMAIN pivot :
         /\ DOMAIN pivot[c] = {df[k].Days : k \in DOMAIN df}
         /\ \A d \in DOMAIN pivot[c] :
              MeanIsOver(pivot[c][d], df,
                         {k \in DOMAIN df : df[k].Form_Desc = c /\ df[k].Days = d})

\* C5: every aggregate value, historical or recent, is the arithmetic mean of
\* exactly the returns recorded for its category at its horizon: the sum of
\* those rows divided by their number, other rows of the category counting
\* neither in the sum nor in the divisor.
C5_AggregateIsMeanOfRecordedReturns ==
    /\ Completed => PivotIsMeanOf(pivot_data, results_df)
    /\ (RecentRan /\ recent_results # <<>>) =>
           PivotIsMeanOf(recent_pivot, recent_results)

\* A category with two returns at one horizon and one at another.
C5_Witness ==
    /\ Completed
    /\ \E c \in DOMAIN pivot_data : \E d1, d2 \in DOMAIN pivot_data[c] :
         /\ pivot_data[c][d1].n = 2
         /\ pivot_data[c][d2].n = 1
         /\ pivot_data[c][d1].sum # 0

\* C6: every per-category per-horizon average output as a number, the Form 4
\* and Form 8-K 30-day averages of the summary included, is backed by at
\* least one recorded return for that category and horizon.
C6_AverageBackedByAReturn ==
    /\ \A c \in DOMAIN pivot_data : \A d \in DOMAIN pivot_data[c] :
         pivot_data[c][d] # NaN =>
             \E r \in AllRows : get_form_description(r.Form) = c /\ r.Days = d
    /\ (pc = "done" /\ Completed) =>
         /\ summary.form_4_avg_30 # NaN =>
                \E r \in AllRows : r.Form = "4" /\ r.Days = 30
         /\ summary.form_8k_avg_30 # NaN =>
                \E r \in AllRows : r.Form = "8-K" /\ r.Days = 30

MappedItemDescriptions == {ItemDescription}
GenericLabel == "Current Events"

\* C7 as stated: a row of an 8-K filing whose description holds a mapped item
\* code does not carry the generic 8-K label.
C7_ItemCodeGivesSubLabel ==
    \A k \in DOMAIN results_df :
        (/\ results_df[k].Form = "8-K"
         /\ filings[results_df[k].src].description \in MappedItemDescriptions)
            => results_df[k].Form_Desc # GenericLabel

\* C7 amended: the category is decided by the form code alone; every 8-K row
\* carries the generic label Current Events whatever its description, a
\* Form 4 row Insider Trading, and a code outside the table is its own label.
C7_LabelDependsOnFormCodeOnly ==
    \A k \in DOMAIN results_df :
        /\ results_df[k].Form = "8-K" => results_df[k].Form_Desc = GenericLabel
        /\ results_df[k].Form = "4" => results_df[k].Form_Desc = "Insider Trading"
        /\ results_df[k].Form = "8-K/A" => results_df[k].Form_Desc = "8-K/A"

\* Two 8-K rows, one with an item code in the description and one without,
\* under the same label.
C7_Witness ==
    \E k, j \in DOMAIN results_df :
        /\ results_df[k].Form = "8-K" /\ results_df[j].Form = "8-K"
        /\ filings[results_df[k].src].description \in MappedItemDescriptions
        /\ filings[results_df[j].src].description \notin MappedItemDescriptions
        /\ results_df[k].Form_Desc = results_df[j].Form_Desc

\* C8: the filings kept are exactly the returned filings with
\* start_date <= filing date <= end_date, and every row, historical or
\* recent, has its filing date in that range.
C8_RowsWithinDateRange ==
    /\ \A i \in DOMAIN filings : InRange(filings[i].filing_date)
    /\ \A r \in AllRows \cup AllRecentRows : InRange(r.Date)
    /\ FilterRan =>
         Len(filings) =
             Cardinality({i \in DOMAIN raw_filings : InRange(raw_filings[i].filing_date)})

\* A returned filing outside the range gave no row while one dated on a bound
\* of the range did.
C8_Witness ==
    /\ \E i \in DOMAIN raw_filings : ~InRange(raw_filings[i].filing_date)
    /\ \E r \in AllRows : r.Date \in {start_date, end_date}

NoDataOutcome == messages \cap {MsgNoData, MsgNoMatch} # {}
ErrorOutcome == MsgException \in messages
CompleteOutcome == Completed
OutcomeCount ==
    (IF NoDataOutcome THEN 1 ELSE 0) + (IF ErrorOutcome THEN 1 ELSE 0)
        + (IF CompleteOutcome THEN 1 ELSE 0)

C10_HorizonsFormAPrefix ==
    /\ LoopRan =>
         \A i \in DOMAIN filings : \A h \in {1, 3, 10, 30} :
             /\ HasRow(results, i, h) <=>
                    Cardinality(DaysOnOrAfter(filings[i].filing_date)) > h
             /\ HasRow(results, i, h) =>
                    \A g \in {1, 3, 10, 30} : g < h => HasRow(results, i, g)
    /\ \A r \in AllRows : r.Days \in {1, 3, 10, 30}
    /\ (RecentRan /\ RecentFilings # <<>>) =>
         \A i \in DOMAIN RecentFilings :
             /\ \A h \in {3, 10, 30} :
                  /\ HasRow(recent_results, i, h) <=>
                       Cardinality(DaysOnOrAfter(RecentFilings[i].filing_date)) > h
                  /\ HasRow(recent_results, i, h) =>
                       \A g \in {3, 10, 30} : g < h => HasRow(recent_results, i, g)
             /\ HasRow(recent_results, i, 0) <=> HasEntry(RecentFilings[i].filing_date)
    /\ \A r \in AllRecentRows :
         /\ r.Days \in {0, 3, 10, 30}
         /\ r.Days = 0 => r.Return = 0

\* A filing with rows for 1, 3 and 10 but not 30, and a recent filing with
\* the horizon-0 row and no row for 30.
C10_Witness ==
    /\ RecentRan
    /\ \E i \in DOMAIN filings :
         HasRow(results, i, 10) /\ ~HasRow(results, i, 30)
    /\ \E i \in DOMAIN RecentFilings :
         HasRow(recent_results, i, 0) /\ ~HasRow(recent_results, i, 30)

====
